---- MODULE Spec2Model ----
(***************************************************************************)
(* Model of the Everspin MR25Hxx SPI MRAM MTD driver                       *)
(* (drivers/mtd/spi/mr25hxx.c).                                            *)
(*                                                                         *)
(* The driver's entry points (probe, remove, read, write, erase) are the   *)
(* actions.  Each action is the whole handler.  The SPI transport          *)
(* (dm_spi_xfer, dm_spi_claim_bus), the MTD registry (add_mtd_device,      *)
(* del_mtd_device), the driver-model core and the MRAM chip itself are     *)
(* collaborators that live outside mr25hxx.c; they are modelled from the   *)
(* design document.                                                        *)
(***************************************************************************)
EXTENDS Integers, Sequences, FiniteSets, TLC

VARIABLES
    dev_data,             \* static struct mr25hxx_data* dev_data (variant name or NULL)
    mram_mtd_registered,  \* static bool mram_mtd_registered
    mtd_priv,             \* mtd->priv of each device's mtd_info (device or NULL)
    mtd_table,            \* the MTD registry: devices whose mtd_info is registered
    bus_claimed,          \* per device: dm_spi_claim_bus succeeded and was not released
    active,               \* per device: the driver model holds the device as probed
    compat,               \* per device: the compatible string of its device-tree node
    cs,                   \* per device: its chip-select line is asserted
    chip,                 \* per device: the state of the MRAM chip behind the line
    lastOp,               \* the last read/write/erase call: arguments, bus phases, result
    nops,                 \* number of read/write/erase calls made
    fault,                \* the system has stopped on a NULL dereference
    lastLife              \* the last probe/remove call: what it called and returned

vars == << dev_data, mram_mtd_registered, mtd_priv, mtd_table, bus_claimed,
           active, compat, cs, chip, lastOp, nops, fault, lastLife >>

----------------------------------------------------------------------------
(* Bounds and input sets                                                   *)

\* Number of read/write/erase calls explored in one run.
MaxOps == 2

NULL == "NULL"

\* The devices a board can carry (the device-tree nodes matching the driver).
Devices == {"mram_a", "mram_b"}

\* Offsets handed to the entry points: 0x1234, 0x3FFF, 0x010203 and 0x1001234
\* (an offset that does not fit in three address bytes).
Offsets == {4660, 16383, 66051, 16781876}

\* Lengths of read requests.
Lens == {0, 2}

\* Buffers a caller writes.
WriteBufs == {<< >>, << 90, 165 >>}

\* Which phases of one call succeed: outs[i] is FALSE when phase i fails.  At
\* most one phase of a call fails.
Outcomes(n) == {o \in [1..n -> BOOLEAN] : Cardinality({i \in 1..n : ~o[i]}) <= 1}

\* Offsets whose address starts with a byte that is also an opcode: 0x0600,
\* 0x0203, 0x060000 and 0x020000.
OpcodeLikeOffsets == {1536, 515, 393216, 131072}

\* Byte values uninitialised heap memory may hold.
HeapBytes == {0, 60}

----------------------------------------------------------------------------
(* Device table                                                            *)

\* static struct mr25hxx_data mr25h40_data ... mr25h128_data
mr25hxx_data(name) ==
    CASE name = "mr25h40"  -> [size |-> 524288, addr_bytes |-> 3]
      [] name = "mr25h10"  -> [size |-> 131072, addr_bytes |-> 3]
      [] name = "mr25h256" -> [size |-> 32768,  addr_bytes |-> 2]
      [] name = "mr25h128" -> [size |-> 16384,  addr_bytes |-> 2]
      \* not in the driver's table: a configuration with an address width the
      \* driver does not support, used only by SpecAnyWidth
      [] name = "wide4"    -> [size |-> 33554432, addr_bytes |-> 4]

\* spi_mram_ids[]: the compatible strings the driver binds to
spi_mram_ids == {"mr25h40", "mr25h10", "mr25h256", "mr25h128"}

----------------------------------------------------------------------------
(* Address setup                                                           *)

\* spi_mram_read's switch with the address bytes stored low byte first.
ReadAddr_LittleEndian(width, offset) ==
    IF width = 3 THEN
        [ok |-> TRUE, addr_bits |-> 3 * 8,
         addr |-> << offset % 256, (offset \div 256) % 256, (offset \div 65536) % 256 >>]
    ELSE IF width = 2 THEN
        [ok |-> TRUE, addr_bits |-> 2 * 8,
         addr |-> << offset % 256, (offset \div 256) % 256, 0 >>]
    ELSE
        [ok |-> FALSE, addr_bits |-> 0, addr |-> << >>]

\* The address switch at the top of spi_mram_read: the addr[3] array, the
\* bit length of the address phase, and whether the width is supported.
ReadAddr(width, offset) ==
    IF width = 3 THEN
        [ok |-> TRUE, addr_bits |-> 3 * 8,
         addr |-> << (offset \div 65536) % 256, (offset \div 256) % 256, offset % 256 >>]
    ELSE IF width = 2 THEN
        [ok |-> TRUE, addr_bits |-> 2 * 8,
         addr |-> << (offset \div 256) % 256, offset % 256, 0 >>]
    ELSE
        [ok |-> FALSE, addr_bits |-> 0, addr |-> << >>]

\* spi_mram_write's switch without the final else: any other width is
\* handled like three address bytes.
WriteAddr_NoElse(width, offset) ==
    IF width = 2 THEN
        [ok |-> TRUE, addr_bits |-> 2 * 8,
         addr |-> << (offset \div 256) % 256, offset % 256, 0 >>]
    ELSE
        [ok |-> TRUE, addr_bits |-> 3 * 8,
         addr |-> << (offset \div 65536) % 256, (offset \div 256) % 256, offset % 256 >>]

\* spi_mram_write's switch with the three-byte branch missing the shift by 16
\* (the two-byte branch copied).
WriteAddr_NoHighByte(width, offset) ==
    IF width = 3 THEN
        [ok |-> TRUE, addr_bits |-> 3 * 8,
         addr |-> << (offset \div 256) % 256, offset % 256, 0 >>]
    ELSE IF width = 2 THEN
        [ok |-> TRUE, addr_bits |-> 2 * 8,
         addr |-> << (offset \div 256) % 256, offset % 256, 0 >>]
    ELSE
        [ok |-> FALSE, addr_bits |-> 0, addr |-> << >>]

\* The same switch at the top of spi_mram_write (a second copy in the source).
WriteAddr(width, offset) ==
    IF width = 3 THEN
        [ok |-> TRUE, addr_bits |-> 3 * 8,
         addr |-> << (offset \div 65536) % 256, (offset \div 256) % 256, offset % 256 >>]
    ELSE IF width = 2 THEN
        [ok |-> TRUE, addr_bits |-> 2 * 8,
         addr |-> << (offset \div 256) % 256, offset % 256, 0 >>]
    ELSE
        [ok |-> FALSE, addr_bits |-> 0, addr |-> << >>]

----------------------------------------------------------------------------
(* The MRAM chip: a chip that honours the command protocol                 *)

\* Opcodes
CMD_READ == 3
CMD_WREN == 6
CMD_WRITE == 2

\* What a cell holds before the driver ever wrote it (differs per address).
Factory(a) == 16 + (a % 32)

\* Level read on the data-in line while the chip does not drive it.
Floating == 255

\* Level the controller drives on the data-out line in a receive-only phase.
MosiIdle == 0

MemAt(mem, a) == IF a \in DOMAIN mem THEN mem[a] ELSE Factory(a)

MemPut(mem, a, b) == [x \in DOMAIN mem \cup {a} |-> IF x = a THEN b ELSE mem[x]]

ChipInit == [mem |-> << >>, wel |-> FALSE, st |-> "idle", addr |-> 0, n |-> 0]

\* Chip-select goes low: the chip awaits an opcode.
ChipSelect(c) == [c EXCEPT !.st = "op", !.addr = 0, !.n = 0]

\* Chip-select goes high: the command ends; the write-enable latch resets
\* after a write command.
ChipDeselect(c) ==
    [c EXCEPT !.st = "idle", !.addr = 0, !.n = 0,
              !.wel = IF c.st \in {"waddr", "wdata"} THEN FALSE ELSE c.wel]

\* The byte the chip drives while one byte is clocked.
ChipOut(c) == IF c.st = "rdata" THEN MemAt(c.mem, c.addr) ELSE Floating

\* The chip after one byte b was clocked in; geo is the chip's own geometry.
ChipIn(c, b, geo) ==
    CASE c.st = "op" ->
            IF b = CMD_WREN THEN [c EXCEPT !.wel = TRUE, !.st = "ign"]
            ELSE IF b = CMD_WRITE /\ c.wel
                 THEN [c EXCEPT !.st = "waddr", !.addr = 0, !.n = geo.addr_bytes]
            ELSE IF b = CMD_READ
                 THEN [c EXCEPT !.st = "raddr", !.addr = 0, !.n = geo.addr_bytes]
            ELSE [c EXCEPT !.st = "ign"]
      [] c.st \in {"waddr", "raddr"} ->
            IF c.n = 1
            THEN [c EXCEPT !.st = IF c.st = "waddr" THEN "wdata" ELSE "rdata",
                           !.addr = (c.addr * 256 + b) % geo.size, !.n = 0]
            ELSE [c EXCEPT !.addr = c.addr * 256 + b, !.n = c.n - 1]
      [] c.st = "wdata" ->
            [c EXCEPT !.mem = MemPut(c.mem, c.addr, b),
                      !.addr = (c.addr + 1) % geo.size]
      [] c.st = "rdata" ->
            [c EXCEPT !.addr = (c.addr + 1) % geo.size]
      [] OTHER -> c

\* Clock the bytes of mosi through the chip; miso collects what the chip drove.
RECURSIVE Clock(_, _, _, _)
Clock(c, mosi, geo, miso) ==
    IF mosi = << >> THEN [chip |-> c, miso |-> miso]
    ELSE Clock(ChipIn(c, Head(mosi), geo), Tail(mosi), geo, Append(miso, ChipOut(c)))

----------------------------------------------------------------------------
(* The command transport: dm_spi_xfer                                      *)

\* Return value of a transfer.
XferResult(ok) == IF ok THEN 0 ELSE 0 - 5

\* One phase on the line of a device.  st = [cs, chip, log, rx, result] is the
\* line, the chip behind it and what the call has seen so far; ph = [bits,
\* dir, tx, begin, end] is the phase as the driver issued it; ok tells whether
\* the payload transfer succeeds.  The framing flags drive chip-select around
\* the phase; a failed phase moves no data.
Xfer(st, ph, ok, geo) ==
    LET nb    == ph.bits \div 8
        sent  == IF ph.dir = "tx" THEN SubSeq(ph.tx, 1, nb) ELSE << >>
        mosi  == IF ph.dir = "tx" THEN sent ELSE [i \in 1..nb |-> MosiIdle]
        cs1   == st.cs \/ ph.begin
        chip1 == IF ph.begin /\ ~st.cs THEN ChipSelect(st.chip) ELSE st.chip
        After(r) ==
            [cs     |-> cs1 /\ ~ph.end,
             chip   |-> IF ph.end /\ cs1 THEN ChipDeselect(r.chip) ELSE r.chip,
             log    |-> Append(st.log,
                               [bits |-> ph.bits, dir |-> ph.dir, tx |-> sent,
                                begin |-> ph.begin, end |-> ph.end, ok |-> ok,
                                cs_before |-> st.cs, cs_after |-> cs1 /\ ~ph.end]),
             rx     |-> IF ok /\ ph.dir = "rx" THEN r.miso ELSE st.rx,
             result |-> XferResult(ok)]
    IN  IF ok /\ cs1 THEN After(Clock(chip1, mosi, geo, << >>))
        ELSE After([chip |-> chip1, miso |-> [i \in 1..nb |-> Floating]])

\* The phases of a handler issued one after the other, each result
\* overwriting the one before (result = dm_spi_xfer(...) with no test in
\* between).  outs[i] tells whether phase i succeeds.
RECURSIVE Issue(_, _, _, _)
Issue(st, phases, outs, geo) ==
    IF phases = << >> THEN st
    ELSE Issue(Xfer(st, Head(phases), Head(outs), geo), Tail(phases), Tail(outs), geo)

----------------------------------------------------------------------------
(* Read, write, erase                                                      *)

\* sizeof(buffer) in spi_mram_erase: the size of a pointer (a 32-bit build).
PtrSize == 4

\* Lengths of erase requests: below, at and above sizeof(buffer).
EraseLens == {0, PtrSize, PtrSize + 1}

\* spi_mram_read's transfers with SPI_XFER_END already on the address phase.
ReadPhases_EndOnAddress(a, len) ==
    << [bits |-> 8, dir |-> "tx", tx |-> << CMD_READ >>, begin |-> TRUE, end |-> FALSE],
       [bits |-> a.addr_bits, dir |-> "tx", tx |-> a.addr, begin |-> FALSE, end |-> TRUE],
       [bits |-> 8 * len, dir |-> "rx", tx |-> << >>, begin |-> FALSE, end |-> TRUE] >>

\* The three transfers of spi_mram_read.
ReadPhases(a, len) ==
    << [bits |-> 8, dir |-> "tx", tx |-> << CMD_READ >>, begin |-> TRUE, end |-> FALSE],
       [bits |-> a.addr_bits, dir |-> "tx", tx |-> a.addr, begin |-> FALSE, end |-> FALSE],
       [bits |-> 8 * len, dir |-> "rx", tx |-> << >>, begin |-> FALSE, end |-> TRUE] >>

\* spi_mram_write's transfers with the write-enable sharing the chip-select
\* frame of the write (no SPI_XFER_END on it, no SPI_XFER_BEGIN on the opcode).
WritePhases_WrenInFrame(a, len, buf) ==
    << [bits |-> 8, dir |-> "tx", tx |-> << CMD_WREN >>, begin |-> TRUE, end |-> FALSE],
       [bits |-> 8, dir |-> "tx", tx |-> << CMD_WRITE >>, begin |-> FALSE, end |-> FALSE],
       [bits |-> a.addr_bits, dir |-> "tx", tx |-> a.addr, begin |-> FALSE, end |-> FALSE],
       [bits |-> 8 * len, dir |-> "tx", tx |-> buf, begin |-> FALSE, end |-> TRUE] >>

\* spi_mram_write's transfers without SPI_XFER_END on the data phase.
WritePhases_NoEndOnData(a, len, buf) ==
    << [bits |-> 8, dir |-> "tx", tx |-> << CMD_WREN >>, begin |-> TRUE, end |-> TRUE],
       [bits |-> 8, dir |-> "tx", tx |-> << CMD_WRITE >>, begin |-> TRUE, end |-> FALSE],
       [bits |-> a.addr_bits, dir |-> "tx", tx |-> a.addr, begin |-> FALSE, end |-> FALSE],
       [bits |-> 8 * len, dir |-> "tx", tx |-> buf, begin |-> FALSE, end |-> FALSE] >>

\* The four transfers of spi_mram_write.
WritePhases(a, len, buf) ==
    << [bits |-> 8, dir |-> "tx", tx |-> << CMD_WREN >>, begin |-> TRUE, end |-> TRUE],
       [bits |-> 8, dir |-> "tx", tx |-> << CMD_WRITE >>, begin |-> TRUE, end |-> FALSE],
       [bits |-> a.addr_bits, dir |-> "tx", tx |-> a.addr, begin |-> FALSE, end |-> FALSE],
       [bits |-> 8 * len, dir |-> "tx", tx |-> buf, begin |-> FALSE, end |-> TRUE] >>

\* if (result == 0) *retlen = len;
SetRetlen(result) == result = 0

NoOp == [kind |-> "none", dev |-> NULL, dd |-> NULL, priv |-> NULL, width |-> 0,
         offset |-> 0, len |-> 0, buf |-> << >>, log |-> << >>, result |-> 0,
         retlen_set |-> FALSE, rx |-> << >>, ub |-> FALSE, faulted |-> FALSE]

\* The call as the caller sees it, before the handler ran.
Call(kind, d, width, offset, len, buf) ==
    [NoOp EXCEPT !.kind = kind, !.dev = d, !.dd = dev_data, !.priv = mtd_priv[d],
                 !.width = width, !.offset = offset, !.len = len, !.buf = buf]

\* dev_data->addr_bytes.  With dev_data NULL the load is a NULL dereference:
\* whatever lies at that address is read.
GarbageWidths == {2, 3, 4}

AddrBytes == IF dev_data = NULL THEN GarbageWidths
             ELSE {mr25hxx_data(dev_data).addr_bytes}

\* Whether the call dereferences a NULL pointer: dev_data, or mtd->priv handed
\* to dm_spi_xfer (reached only when the width passed the switch).
DerefsNull(d, width) == dev_data = NULL \/ (width \in {2, 3} /\ mtd_priv[d] = NULL)

\* A NULL dereference either stops the system or goes on with what it read.
Stops(d, width) == IF DerefsNull(d, width) THEN BOOLEAN ELSE {FALSE}

\* The line and chip the transfers of a call on d go to, before the first one.
Line(d) == [cs |-> cs[d], chip |-> chip[d], log |-> << >>, rx |-> << >>, result |-> 0]

Finish(d, op, r) ==
    /\ cs' = [cs EXCEPT ![d] = r.cs]
    /\ chip' = [chip EXCEPT ![d] = r.chip]
    /\ lastOp' = op

\* Body of spi_mram_read with the width it loaded.
ReadBody(d, offset, len, outs, width, stop) ==
    LET a  == ReadAddr(width, offset)
        op == [Call("read", d, width, offset, len, << >>) EXCEPT !.ub = DerefsNull(d, width)]
    IN  IF stop THEN
            /\ fault' = TRUE
            /\ lastOp' = [op EXCEPT !.faulted = TRUE]
            /\ UNCHANGED << cs, chip >>
        ELSE IF ~a.ok THEN
            /\ lastOp' = [op EXCEPT !.result = 0 - 1]
            /\ UNCHANGED << cs, chip, fault >>
        ELSE IF mtd_priv[d] = NULL THEN
            \* dm_spi_xfer on a NULL device that did not stop the system:
            \* it reports an error and drives no line
            /\ lastOp' = [op EXCEPT !.result = XferResult(FALSE)]
            /\ UNCHANGED << cs, chip, fault >>
        ELSE
            \E r \in {Issue(Line(d), ReadPhases(a, len), outs, mr25hxx_data(compat[d]))} :
                /\ Finish(d, [op EXCEPT !.log = r.log, !.result = r.result,
                                        !.retlen_set = SetRetlen(r.result),
                                        !.rx = r.rx], r)
                /\ UNCHANGED fault

\* Body of spi_mram_write with the width it loaded; kind tells whether the
\* MTD layer called it (write) or spi_mram_erase did (erase).
WriteBody(kind, d, offset, len, buf, outs, width, stop) ==
    LET a  == WriteAddr(width, offset)
        op == [Call(kind, d, width, offset, len, buf) EXCEPT !.ub = DerefsNull(d, width)]
    IN  IF stop THEN
            /\ fault' = TRUE
            /\ lastOp' = [op EXCEPT !.faulted = TRUE]
            /\ UNCHANGED << cs, chip >>
        ELSE IF ~a.ok THEN
            /\ lastOp' = [op EXCEPT !.result = 0 - 1]
            /\ UNCHANGED << cs, chip, fault >>
        ELSE IF mtd_priv[d] = NULL THEN
            /\ lastOp' = [op EXCEPT !.result = XferResult(FALSE)]
            /\ UNCHANGED << cs, chip, fault >>
        ELSE
            \E r \in {Issue(Line(d), WritePhases(a, len, buf), outs, mr25hxx_data(compat[d]))} :
                /\ Finish(d, [op EXCEPT !.log = r.log, !.result = r.result,
                                        !.retlen_set = SetRetlen(r.result)], r)
                /\ UNCHANGED fault

\* The buffer spi_mram_erase hands to spi_mram_write: kmalloc(len) followed by
\* memset(buffer, 0, sizeof(buffer)).  Only the first sizeof(buffer) bytes are
\* zeroed; the bytes behind them keep what the heap held (heap).  For a len
\* below sizeof(buffer) the memset stays inside the allocator's minimum chunk.
EraseBuffer(len, heap) ==
    [i \in 1..len |-> IF i <= PtrSize THEN 0 ELSE heap[i - PtrSize]]

HeapTails(len) == IF len > PtrSize THEN [1..(len - PtrSize) -> HeapBytes] ELSE {<< >>}

\* The entry points are reached through the registered mtd_info (mtd->_read,
\* mtd->_write, mtd->_erase).
Callable(d) == d \in mtd_table /\ ~fault /\ nops < MaxOps

Unchanged_driver ==
    UNCHANGED << dev_data, mram_mtd_registered, mtd_priv, mtd_table, bus_claimed,
                 active, compat, lastLife >>

\* spi_mram_read called through mtd->_read with an offset out of offsets.
ReadCall(d, offsets) ==
    /\ Callable(d)
    /\ \E offset \in offsets, len \in Lens, outs \in Outcomes(3), width \in AddrBytes :
         \E stop \in Stops(d, width) :
            ReadBody(d, offset, len, outs, width, stop)
    /\ nops' = nops + 1
    /\ Unchanged_driver

spi_mram_read(d) == ReadCall(d, Offsets)

spi_mram_write(d) ==
    /\ Callable(d)
    /\ \E offset \in Offsets, buf \in WriteBufs, outs \in Outcomes(4), width \in AddrBytes :
         \E stop \in Stops(d, width) :
            WriteBody("write", d, offset, Len(buf), buf, outs, width, stop)
    /\ nops' = nops + 1
    /\ Unchanged_driver

spi_mram_erase(d) ==
    /\ Callable(d)
    /\ \E offset \in Offsets, len \in EraseLens, outs \in Outcomes(4), width \in AddrBytes :
         \E heap \in HeapTails(len), stop \in Stops(d, width) :
            WriteBody("erase", d, offset, len, EraseBuffer(len, heap), outs, width, stop)
    /\ nops' = nops + 1
    /\ Unchanged_driver

----------------------------------------------------------------------------
(* Registration with the MTD registry                                      *)

\* No probe or remove call yet.  claim, del and add tell whether the call made
\* dm_spi_claim_bus, del_mtd_device and add_mtd_device and how each came back
\* ("none": not called); ret is the value the call returned; tick flips with
\* every call.
NoLife == [kind |-> "none", dev |-> NULL, claim |-> "none", del |-> "none",
           add |-> "none", ret |-> 0, tick |-> 0]

\* The record of a call that follows the one recorded in lastLife.
Life(kind, d) == [NoLife EXCEPT !.kind = kind, !.dev = d, !.tick = 1 - lastLife.tick]

\* del_mtd_device(mtd): only an entry that is in the registry can be removed,
\* and the registry may refuse (the entry is in use).
DelSucceeds(d, del_ok) == d \in mtd_table /\ del_ok

\* spi_mram_mtd_register setting the flag before add_mtd_device has answered.
spi_mram_mtd_register_FlagBeforeAdd(d, del_ok, add_ok) ==
    IF mram_mtd_registered /\ ~DelSucceeds(d, del_ok) THEN
        [ret |-> 0 - 1, registered |-> mram_mtd_registered, table |-> mtd_table,
         del |-> "failed", add |-> "none"]
    ELSE
        LET t == IF mram_mtd_registered THEN mtd_table \ {d} ELSE mtd_table
            del == IF mram_mtd_registered THEN "ok" ELSE "none"
        IN  IF add_ok
            THEN [ret |-> 0, registered |-> TRUE, table |-> t \cup {d},
                  del |-> del, add |-> "ok"]
            ELSE [ret |-> 0 - 1, registered |-> TRUE, table |-> t,
                  del |-> del, add |-> "failed"]

\* spi_mram_mtd_register without the removal of the entry registered before.
spi_mram_mtd_register_NoDel(d, del_ok, add_ok) ==
    IF add_ok
    THEN [ret |-> 0, registered |-> TRUE, table |-> mtd_table \cup {d},
          del |-> "none", add |-> "ok"]
    ELSE [ret |-> 0 - 1, registered |-> FALSE, table |-> mtd_table,
          del |-> "none", add |-> "failed"]

\* spi_mram_mtd_register(mtd) for the mtd_info of device d: the return value,
\* the flag and the registry afterwards.
spi_mram_mtd_register(d, del_ok, add_ok) ==
    IF mram_mtd_registered /\ ~DelSucceeds(d, del_ok) THEN
        [ret |-> 0 - 1, registered |-> mram_mtd_registered, table |-> mtd_table,
         del |-> "failed", add |-> "none"]
    ELSE
        LET t == IF mram_mtd_registered THEN mtd_table \ {d} ELSE mtd_table
            del == IF mram_mtd_registered THEN "ok" ELSE "none"
        IN  IF add_ok
            THEN [ret |-> 0, registered |-> TRUE, table |-> t \cup {d},
                  del |-> del, add |-> "ok"]
            ELSE [ret |-> 0 - 1, registered |-> FALSE, table |-> t,
                  del |-> del, add |-> "failed"]

Unchanged_bus == UNCHANGED << cs, chip, lastOp, nops, fault >>

\* Return value of dm_spi_claim_bus.
ClaimResult(ok) == IF ok THEN 0 ELSE 0 - 16

\* spi_mram_probe with the geometry selected before the bus is claimed.
spi_mram_probe_GeometryBeforeClaim(d) ==
    /\ compat[d] # "absent"
    /\ ~active[d]
    /\ ~fault
    /\ mtd_priv' = [mtd_priv EXCEPT ![d] = d]
    /\ dev_data' = compat[d]
    /\ \E claim_ok \in BOOLEAN, del_ok \in BOOLEAN, add_ok \in BOOLEAN :
         IF ~claim_ok THEN
            /\ lastLife' = [Life("probe", d) EXCEPT
                                          !.claim = "failed",
                                          !.ret = ClaimResult(FALSE)]
            /\ UNCHANGED << mram_mtd_registered, mtd_table, bus_claimed, active >>
         ELSE
            \E r \in {spi_mram_mtd_register(d, del_ok, add_ok)} :
                /\ bus_claimed' = [bus_claimed EXCEPT ![d] = TRUE]
                /\ mram_mtd_registered' = r.registered
                /\ mtd_table' = r.table
                /\ active' = [active EXCEPT ![d] = (r.ret = 0)]
                /\ lastLife' = [Life("probe", d) EXCEPT
                                              !.claim = "ok", !.del = r.del,
                                              !.add = r.add, !.ret = r.ret]
    /\ UNCHANGED compat
    /\ Unchanged_bus

\* spi_mram_probe(dev), called by the driver model for a device that is not
\* probed yet.  The device counts as probed only when probe returned 0.
spi_mram_probe(d) ==
    /\ compat[d] # "absent"
    /\ ~active[d]
    /\ ~fault
    /\ mtd_priv' = [mtd_priv EXCEPT ![d] = d]
    /\ \E claim_ok \in BOOLEAN, del_ok \in BOOLEAN, add_ok \in BOOLEAN :
         IF ~claim_ok THEN
            /\ lastLife' = [Life("probe", d) EXCEPT
                                          !.claim = "failed",
                                          !.ret = ClaimResult(FALSE)]
            /\ UNCHANGED << dev_data, mram_mtd_registered, mtd_table, bus_claimed, active >>
         ELSE
            \E r \in {spi_mram_mtd_register(d, del_ok, add_ok)} :
                /\ bus_claimed' = [bus_claimed EXCEPT ![d] = TRUE]
                /\ dev_data' = compat[d]
                /\ mram_mtd_registered' = r.registered
                /\ mtd_table' = r.table
                /\ active' = [active EXCEPT ![d] = (r.ret = 0)]
                /\ lastLife' = [Life("probe", d) EXCEPT
                                              !.claim = "ok", !.del = r.del,
                                              !.add = r.add, !.ret = r.ret]
    /\ UNCHANGED compat
    /\ Unchanged_bus

\* spi_mram_remove whose unregister clears the flag although del_mtd_device
\* failed.
spi_mram_remove_ClearsFlagOnFailure(d) ==
    /\ active[d]
    /\ ~fault
    /\ \E del_ok \in BOOLEAN :
         IF ~mram_mtd_registered THEN
            /\ lastLife' = Life("remove", d)
            /\ UNCHANGED << mram_mtd_registered, mtd_table, mtd_priv >>
         ELSE IF DelSucceeds(d, del_ok) THEN
            /\ mram_mtd_registered' = FALSE
            /\ mtd_table' = mtd_table \ {d}
            /\ lastLife' = [Life("remove", d) EXCEPT !.del = "ok"]
            /\ UNCHANGED mtd_priv
         ELSE
            /\ mram_mtd_registered' = FALSE
            /\ mtd_priv' = [mtd_priv EXCEPT ![d] = NULL]
            /\ lastLife' = [Life("remove", d) EXCEPT !.del = "failed"]
            /\ UNCHANGED mtd_table
    /\ dev_data' = NULL
    /\ active' = [active EXCEPT ![d] = FALSE]
    /\ UNCHANGED << bus_claimed, compat >>
    /\ Unchanged_bus

\* spi_mram_remove(dev) with spi_mram_mtd_unregister(dev) inlined.
spi_mram_remove(d) ==
    /\ active[d]
    /\ ~fault
    /\ \E del_ok \in BOOLEAN :
         IF ~mram_mtd_registered THEN
            /\ lastLife' = Life("remove", d)
            /\ UNCHANGED << mram_mtd_registered, mtd_table, mtd_priv >>
         ELSE IF DelSucceeds(d, del_ok) THEN
            /\ mram_mtd_registered' = FALSE
            /\ mtd_table' = mtd_table \ {d}
            /\ lastLife' = [Life("remove", d) EXCEPT !.del = "ok"]
            /\ UNCHANGED mtd_priv
         ELSE
            /\ mtd_priv' = [mtd_priv EXCEPT ![d] = NULL]
            /\ lastLife' = [Life("remove", d) EXCEPT !.del = "failed"]
            /\ UNCHANGED << mram_mtd_registered, mtd_table >>
    /\ dev_data' = NULL
    /\ active' = [active EXCEPT ![d] = FALSE]
    /\ UNCHANGED << bus_claimed, compat >>
    /\ Unchanged_bus

----------------------------------------------------------------------------
(* Specifications                                                          *)

\* Boards with one MRAM chip of one of the four supported variants.
OneChipBoards ==
    {b \in [Devices -> spi_mram_ids \cup {"absent"}] :
        b["mram_a"] # "absent" /\ b["mram_b"] = "absent"}

\* One-chip boards whose chip may also be configured with an address width the
\* driver does not support.
AnyWidthBoards ==
    {b \in [Devices -> spi_mram_ids \cup {"wide4", "absent"}] :
        b["mram_a"] # "absent" /\ b["mram_b"] = "absent"}

\* What no action has touched yet.
Untouched ==
    /\ cs = [d \in Devices |-> FALSE]
    /\ chip = [d \in Devices |-> ChipInit]
    /\ lastOp = NoOp
    /\ nops = 0
    /\ fault = FALSE

\* The state after the driver is loaded: nothing probed.
Init ==
    /\ compat \in OneChipBoards
    /\ dev_data = NULL
    /\ mram_mtd_registered = FALSE
    /\ mtd_priv = [d \in Devices |-> NULL]
    /\ mtd_table = {}
    /\ bus_claimed = [d \in Devices |-> FALSE]
    /\ active = [d \in Devices |-> FALSE]
    /\ lastLife = NoLife
    /\ Untouched

\* The state after spi_mram_probe of the chip of a board in boards returned 0:
\* bus claimed, geometry selected, mtd_info registered.
Bound(boards) ==
    /\ compat \in boards
    /\ dev_data = compat["mram_a"]
    /\ mram_mtd_registered = TRUE
    /\ mtd_priv = [d \in Devices |-> IF d = "mram_a" THEN d ELSE NULL]
    /\ mtd_table = {"mram_a"}
    /\ bus_claimed = [d \in Devices |-> d = "mram_a"]
    /\ active = [d \in Devices |-> d = "mram_a"]
    /\ lastLife = [NoLife EXCEPT !.kind = "probe", !.dev = "mram_a",
                                 !.claim = "ok", !.add = "ok"]

InitIO == Bound(OneChipBoards) /\ Untouched

InitAnyWidth == Bound(AnyWidthBoards) /\ Untouched

\* Calls of the entry points.
NextIO ==
    \E d \in Devices :
        \/ spi_mram_read(d)
        \/ spi_mram_write(d)
        \/ spi_mram_erase(d)

\* Probe and remove by the driver model.
NextLife ==
    \E d \in Devices :
        \/ spi_mram_probe(d)
        \/ spi_mram_remove(d)

Next == NextLife \/ NextIO

\* The driver from load on: probe, remove and calls in any order.
Spec == Init /\ [][Next]_vars

\* Boards with two MRAM chips, each of one of the four supported variants.
TwoChipBoards == [Devices -> spi_mram_ids]

\* Two-chip boards whose chips differ in address width.
MixedBoards ==
    {b \in TwoChipBoards :
        mr25hxx_data(b["mram_a"]).addr_bytes # mr25hxx_data(b["mram_b"]).addr_bytes}

\* The state after the driver is loaded on a board in boards.
Loaded(boards) ==
    /\ compat \in boards
    /\ dev_data = NULL
    /\ mram_mtd_registered = FALSE
    /\ mtd_priv = [d \in Devices |-> NULL]
    /\ mtd_table = {}
    /\ bus_claimed = [d \in Devices |-> FALSE]
    /\ active = [d \in Devices |-> FALSE]
    /\ lastLife = NoLife

InitLife == Loaded(OneChipBoards \cup TwoChipBoards) /\ Untouched

\* The first chip bound, on a board that carries a second chip of another
\* address width.
InitTwo == Bound(MixedBoards) /\ Untouched

\* Calls on the bound chip while the driver model probes the other chip.
NextTwo == spi_mram_probe("mram_b") \/ NextIO

\* Probe and remove of the chips of a board, no calls of the entry points.
SpecLife == InitLife /\ [][NextLife]_vars

\* The first chip in use while the second one is probed.
SpecTwo == InitTwo /\ [][NextTwo]_vars

\* Reads of a bound device at offsets whose address starts like an opcode.
NextReads == \E d \in Devices : ReadCall(d, OpcodeLikeOffsets)

\* Nothing but reads on a bound device.
SpecReads == InitIO /\ [][NextReads]_vars

\* Calls on a bound device.
SpecIO == InitIO /\ [][NextIO]_vars

\* Calls on a bound device whose configured address width may be unsupported.
SpecAnyWidth == InitAnyWidth /\ [][NextIO]_vars

----------------------------------------------------------------------------
(* Properties                                                              *)

\* The last call ran through a handler with a supported address width and a
\* device to talk to, so its transfers reached the bus.
OnBus(op) == op.kind # "none" /\ op.width \in {2, 3} /\ op.priv # NULL /\ ~op.faulted

AllOk(op) == \A i \in DOMAIN op.log : op.log[i].ok

SomeFailed(op) == \E i \in DOMAIN op.log : ~op.log[i].ok

\* The geometry the call ran with is the one of the chip it talked to.
OwnGeometry(op) == op.dd = compat[op.dev]

InBounds(op) == op.offset + op.len <= mr25hxx_data(compat[op.dev]).size

IsWren(e) ==
    e.dir = "tx" /\ e.bits = 8 /\ e.tx = << 6 >> /\ e.begin /\ e.end

IsWriteOpcode(e) ==
    e.dir = "tx" /\ e.bits = 8 /\ e.tx = << 2 >> /\ e.begin /\ ~e.end

\* C1: every call of spi_mram_write with a supported address width (made by
\* the MTD layer or by erase, the first call or a repeated one) issues
\* exactly one write-enable transaction (0x06, 8 bits, Begin+End, chip-select
\* low and high again within that phase) and issues it first, followed by the
\* write opcode 0x02 (Begin), the address phase (no framing) and the data
\* phase (End); and no call of any kind issues a write opcode phase that is
\* not immediately preceded by a write-enable transaction.
C1_WriteEnableFirst ==
    /\ (lastOp.kind \in {"write", "erase"} /\ OnBus(lastOp)) =>
          /\ Len(lastOp.log) = 4
          /\ IsWren(lastOp.log[1])
          /\ ~lastOp.log[1].cs_before /\ ~lastOp.log[1].cs_after
          /\ Cardinality({i \in 1..4 : lastOp.log[i].begin /\ lastOp.log[i].end}) = 1
          /\ IsWriteOpcode(lastOp.log[2])
          /\ ~lastOp.log[3].begin /\ ~lastOp.log[3].end
          /\ lastOp.log[3].dir = "tx" /\ lastOp.log[3].bits = 8 * lastOp.width
          /\ ~lastOp.log[4].begin /\ lastOp.log[4].end
          /\ lastOp.log[4].dir = "tx" /\ lastOp.log[4].tx = lastOp.buf
          /\ lastOp.log[4].bits = 8 * lastOp.len
    /\ \A i \in DOMAIN lastOp.log :
          IsWriteOpcode(lastOp.log[i]) => i > 1 /\ IsWren(lastOp.log[i - 1])

\* C1 witness: a second call in a row wrote two bytes, after an earlier write
\* elsewhere in the chip.
C1_Witness ==
    /\ nops = 2
    /\ lastOp.kind = "write" /\ OnBus(lastOp) /\ AllOk(lastOp) /\ lastOp.len = 2
    /\ Cardinality(DOMAIN chip[lastOp.dev].mem) = 4

\* C2: a read with a supported address width issues exactly three phases:
\* opcode 0x03 (8 bits, Begin), the address (16 or 24 bits, no framing), a
\* receive phase of 8*len bits (End); chip-select is asserted from the first
\* phase until the third completes; when every transfer succeeds the call
\* returns 0 with retlen = len.
C2_ReadThreePhases ==
    (lastOp.kind = "read" /\ OnBus(lastOp)) =>
        /\ Len(lastOp.log) = 3
        /\ lastOp.log[1].dir = "tx" /\ lastOp.log[1].tx = << 3 >>
        /\ lastOp.log[1].bits = 8
        /\ lastOp.log[1].begin /\ ~lastOp.log[1].end
        /\ lastOp.log[2].dir = "tx" /\ lastOp.log[2].bits \in {16, 24}
        /\ lastOp.log[2].bits = 8 * lastOp.width
        /\ Len(lastOp.log[2].tx) = lastOp.width
        /\ ~lastOp.log[2].begin /\ ~lastOp.log[2].end
        /\ lastOp.log[3].dir = "rx" /\ lastOp.log[3].bits = 8 * lastOp.len
        /\ lastOp.log[3].tx = << >>
        /\ ~lastOp.log[3].begin /\ lastOp.log[3].end
        /\ ~lastOp.log[1].cs_before /\ lastOp.log[1].cs_after
        /\ lastOp.log[2].cs_before /\ lastOp.log[2].cs_after
        /\ lastOp.log[3].cs_before /\ ~lastOp.log[3].cs_after
        /\ AllOk(lastOp) =>
              /\ lastOp.result = 0
              /\ lastOp.retlen_set
              /\ Len(lastOp.rx) = lastOp.len

\* C2 witness: a two-byte read on a two-byte-address chip that succeeded.
C2_Witness ==
    /\ lastOp.kind = "read" /\ OnBus(lastOp) /\ AllOk(lastOp)
    /\ lastOp.width = 2 /\ lastOp.len = 2 /\ lastOp.retlen_set

\* A successful write within the bounds of the chip, with the chip's own geometry.
GoodWrite(op) ==
    /\ op.kind = "write" /\ OnBus(op) /\ AllOk(op) /\ op.result = 0
    /\ OwnGeometry(op) /\ InBounds(op)

\* C3: on every variant, a write within bounds whose phases all succeeded,
\* followed at once by a read of the same offset and length whose phases all
\* succeeded, makes the read return exactly the data written.
C3_RoundTrip ==
    [][ ( /\ GoodWrite(lastOp)
          /\ nops' = nops + 1
          /\ lastOp'.kind = "read" /\ OnBus(lastOp') /\ AllOk(lastOp')
          /\ lastOp'.dev = lastOp.dev /\ lastOp'.dd = lastOp.dd
          /\ lastOp'.offset = lastOp.offset /\ lastOp'.len = lastOp.len )
        => ( lastOp'.rx = lastOp.buf /\ lastOp'.retlen_set ) ]_vars

\* C3 witness: a successful read within bounds returned the two bytes that
\* only a write can have put into the chip.
C3_Witness ==
    /\ lastOp.kind = "read" /\ OnBus(lastOp) /\ AllOk(lastOp)
    /\ OwnGeometry(lastOp) /\ InBounds(lastOp)
    /\ lastOp.len = 2 /\ lastOp.rx = << 90, 165 >>

\* C4: an erase of any length hands spi_mram_write a payload of len zero
\* bytes, so that after a successful erase within bounds every cell of the
\* erased range holds zero (what a read of the range then returns).
C4_EraseZeroFill ==
    (lastOp.kind = "erase" /\ OnBus(lastOp) /\ AllOk(lastOp)) =>
        /\ Len(lastOp.buf) = lastOp.len
        /\ \A i \in 1..lastOp.len : lastOp.buf[i] = 0
        /\ lastOp.log[4].tx = lastOp.buf
        /\ (OwnGeometry(lastOp) /\ InBounds(lastOp)) =>
              \A i \in 0..(lastOp.len - 1) :
                  MemAt(chip[lastOp.dev].mem, lastOp.offset + i) = 0

\* The configured geometry of the call names an address width other than 2 and 3.
UnsupportedWidth(op) ==
    op.kind # "none" /\ op.dd # NULL /\ mr25hxx_data(op.dd).addr_bytes \notin {2, 3}

\* C5: with a configured address width other than 2 and 3, read, write and
\* erase return a failure and issue no bus phase: nothing is logged, retlen is
\* not set, chip-select of the device is never asserted and its chip never
\* sees a byte.
C5_UnsupportedWidthNoBus ==
    /\ UnsupportedWidth(lastOp) =>
          /\ lastOp.result # 0
          /\ lastOp.log = << >>
          /\ ~lastOp.retlen_set
          /\ lastOp.rx = << >>
    /\ \A d \in Devices :
          (compat[d] # "absent" /\ mr25hxx_data(compat[d]).addr_bytes \notin {2, 3}) =>
              ~cs[d] /\ chip[d] = ChipInit

\* C5 witness: a second call, an erase, on a device configured with four
\* address bytes came back with -1.
C5_Witness ==
    /\ nops = 2
    /\ lastOp.kind = "erase" /\ UnsupportedWidth(lastOp) /\ lastOp.width = 4
    /\ lastOp.result = 0 - 1

\* Big-endian encoding of an offset in 2 or 3 bytes.
BigEndian(width, offset) ==
    IF width = 3
    THEN << (offset \div 65536) % 256, (offset \div 256) % 256, offset % 256 >>
    ELSE << (offset \div 256) % 256, offset % 256 >>

\* The address phase of a call that reached the bus.
AddrPhase(op) == IF op.kind = "read" THEN op.log[2] ELSE op.log[3]

\* C6: the address phase of read and of write (and erase) carries the
\* big-endian encoding of the offset in as many bytes as the device's
\* geometry says: 3 bytes and 24 bits for a ThreeByte device, 2 bytes and 16
\* bits for a TwoByte device (0x010203 -> 01 02 03, 0x1234 -> 12 34); read and
\* write of one offset on one device therefore send the same bytes.
C6_AddressBigEndian ==
    (OnBus(lastOp) /\ lastOp.dd # NULL) =>
        /\ lastOp.width = mr25hxx_data(lastOp.dd).addr_bytes
        /\ AddrPhase(lastOp).tx = BigEndian(lastOp.width, lastOp.offset)
        /\ AddrPhase(lastOp).bits = 8 * lastOp.width
        /\ (lastOp.width = 3 /\ lastOp.offset = 66051) =>
              AddrPhase(lastOp).tx = << 1, 2, 3 >>
        /\ (lastOp.width = 2 /\ lastOp.offset = 4660) =>
              AddrPhase(lastOp).tx = << 18, 52 >>

\* C6 witness: a write to 0x010203 on a three-byte-address chip sent 01 02 03.
C6_Witness ==
    /\ lastOp.kind = "write" /\ OnBus(lastOp) /\ lastOp.dd # NULL
    /\ lastOp.width = 3 /\ lastOp.offset = 66051
    /\ lastOp.log[3].tx = << 1, 2, 3 >>

\* C7: read and write set retlen only on full success: when any phase of the
\* call failed (here of a call that asked for at least one byte), retlen is
\* not set.
C7_RetlenOnlyOnFullSuccess ==
    (/\ lastOp.kind \in {"read", "write"} /\ OnBus(lastOp)
     /\ lastOp.len > 0 /\ SomeFailed(lastOp)) =>
        ~lastOp.retlen_set

\* C8: when any phase of a read, write or erase failed, the call returns a
\* failure; it returns success only when every phase it issued succeeded.
C8_FailurePropagates ==
    (OnBus(lastOp) /\ lastOp.len > 0 /\ SomeFailed(lastOp)) => lastOp.result # 0

\* C9: once a phase of a read or write has failed, no later phase of that
\* call is issued: a failed phase is the last one in the call's log.
C9_NoPhaseAfterFailure ==
    (lastOp.kind \in {"read", "write"} /\ OnBus(lastOp)) =>
        \A i \in DOMAIN lastOp.log :
            ~lastOp.log[i].ok => i = Len(lastOp.log)

\* The range of the call exceeds the size of the configured geometry.
OutOfRange(op) ==
    op.dd # NULL /\ op.offset + op.len > mr25hxx_data(op.dd).size

\* C10: a read or write of at least one byte whose range exceeds the device
\* never returns success with retlen = len (here even with every transfer
\* succeeding, so that data moved at a truncated or wrapped chip address).
C10_NoSilentOutOfBounds ==
    (/\ lastOp.kind \in {"read", "write"} /\ OnBus(lastOp) /\ AllOk(lastOp)
     /\ lastOp.len > 0 /\ OutOfRange(lastOp)) =>
        ~(lastOp.result = 0 /\ lastOp.retlen_set)

\* The step is a probe call that got as far as spi_mram_mtd_register.
Registering ==
    /\ lastLife'.tick # lastLife.tick
    /\ lastLife'.kind = "probe" /\ lastLife'.claim = "ok"

\* C11: across any sequence of register and unregister calls the registry
\* never holds more than one entry of this driver.  A register call made
\* while an entry is registered calls del_mtd_device before add_mtd_device;
\* when that removal fails, add_mtd_device is not called, the call returns an
\* error and the registry is left as it was; when it succeeds, the old entry
\* is gone before the new one is installed.
C11_SingleRegistryEntry ==
    [][ /\ Cardinality(mtd_table) <= 1
        /\ Cardinality(mtd_table') <= 1
        /\ Registering =>
              /\ mram_mtd_registered <=> (lastLife'.del # "none")
              /\ (lastLife'.del = "failed") =>
                    /\ lastLife'.add = "none" /\ lastLife'.ret # 0
                    /\ mtd_table' = mtd_table
              /\ (lastLife'.del = "ok") => mtd_table' \subseteq {lastLife'.dev}
              /\ (lastLife'.add = "ok") => mtd_table' = {lastLife'.dev}
      ]_vars

\* C11 witness: a probe found its entry still registered (left behind by a
\* remove whose del_mtd_device failed), removed it and installed a new one.
C11_Witness ==
    /\ lastLife.kind = "probe" /\ lastLife.del = "ok" /\ lastLife.add = "ok"
    /\ mtd_table = {lastLife.dev} /\ mram_mtd_registered

\* C12: two devices do not share mutable state: every read, write and erase
\* on a device that is bound runs with the geometry selected for that device
\* at its bind time (its own size and address width), whatever probe and
\* remove calls were made for another device in between (here for calls whose
\* transfers all succeeded).
C12_OwnGeometryForLife ==
    [][ (nops' = nops + 1 /\ active[lastOp'.dev] /\ AllOk(lastOp')) =>
            /\ lastOp'.dd = compat[lastOp'.dev]
            /\ lastOp'.width = mr25hxx_data(compat[lastOp'.dev]).addr_bytes
      ]_vars

\* C13: the bus claim taken at bind is released on every exit of the device's
\* life: after remove has completed, and after a probe that failed following
\* a successful bus claim, the device no longer holds the bus.
C13_BusReleasedOnExit ==
    ( \/ lastLife.kind = "remove"
      \/ (lastLife.kind = "probe" /\ lastLife.claim = "ok" /\ lastLife.ret # 0) ) =>
        ~bus_claimed[lastLife.dev]

\* The step is a probe call whose dm_spi_claim_bus failed.
ClaimFailing ==
    /\ lastLife'.tick # lastLife.tick
    /\ lastLife'.kind = "probe" /\ lastLife'.claim = "failed"

\* C14: when claiming the bus fails during probe, probe returns that error,
\* neither del_mtd_device nor add_mtd_device is called, the registry and the
\* registered flag are as before, the geometry pointer is not set, and the
\* device is neither bound nor holding the bus.
C14_ClaimFailureStopsProbe ==
    [][ ClaimFailing =>
            /\ lastLife'.ret = ClaimResult(FALSE) /\ lastLife'.ret # 0
            /\ lastLife'.add = "none" /\ lastLife'.del = "none"
            /\ mram_mtd_registered' = mram_mtd_registered
            /\ mtd_table' = mtd_table
            /\ dev_data' = dev_data
            /\ ~active'[lastLife'.dev]
            /\ bus_claimed' = bus_claimed
      ]_vars

\* C14 witness: the first probe on a board failed to claim the bus: nothing
\* is registered and no geometry is selected.
C14_Witness ==
    /\ lastLife.kind = "probe" /\ lastLife.claim = "failed" /\ lastLife.ret # 0
    /\ dev_data = NULL /\ ~mram_mtd_registered /\ mtd_table = {}
    /\ mtd_priv[lastLife.dev] = lastLife.dev

\* The step is a remove call.
Unbinding == lastLife'.tick # lastLife.tick /\ lastLife'.kind = "remove"

\* C15: when del_mtd_device fails during unbind, the driver sets mtd->priv of
\* the entry to NULL, the entry stays in the registry (where its entry points
\* can still be called) and the flag stays set; nothing is retried, so the
\* registry is exactly as before.  When del_mtd_device succeeds, the entry is
\* gone and the flag is cleared.
C15_FailedUnregisterLeavesEntry ==
    [][ Unbinding =>
            /\ (lastLife'.del = "failed") =>
                  /\ mtd_priv'[lastLife'.dev] = NULL
                  /\ lastLife'.dev \in mtd_table'
                  /\ mtd_table' = mtd_table
                  /\ mram_mtd_registered /\ mram_mtd_registered'
            /\ (lastLife'.del = "ok") =>
                  /\ lastLife'.dev \in mtd_table
                  /\ lastLife'.dev \notin mtd_table'
                  /\ mram_mtd_registered /\ ~mram_mtd_registered'
                  /\ mtd_priv' = mtd_priv
            /\ (lastLife'.del = "none") => ~mram_mtd_registered
      ]_vars

\* C15 witness: a remove whose del_mtd_device failed left the entry in the
\* registry with mtd->priv NULL and the flag set.
C15_Witness ==
    /\ lastLife.kind = "remove" /\ lastLife.del = "failed"
    /\ lastLife.dev \in mtd_table /\ mtd_priv[lastLife.dev] = NULL
    /\ mram_mtd_registered /\ ~active[lastLife.dev]

\* C16: chip-select framing is balanced: in every call, with any phase
\* succeeding or failing, a phase with Begin is issued only while chip-select
\* is de-asserted, a phase without Begin only while it is asserted, and
\* chip-select is de-asserted whenever a call has returned.
C16_FramingBalanced ==
    /\ \A d \in Devices : ~cs[d]
    /\ \A i \in DOMAIN lastOp.log :
          /\ lastOp.log[i].begin => ~lastOp.log[i].cs_before
          /\ ~lastOp.log[i].begin => lastOp.log[i].cs_before
          /\ lastOp.log[i].cs_after = ~lastOp.log[i].end

\* C16 witness: a second call, a write whose opcode phase (the one with Begin)
\* failed, has returned.
C16_Witness ==
    /\ nops = 2
    /\ lastOp.kind = "write" /\ OnBus(lastOp) /\ Len(lastOp.log) = 4
    /\ ~lastOp.log[2].ok
    /\ ~cs[lastOp.dev]

\* C17: whenever the registry holds an entry of this driver (so that its
\* read/write/erase entry points can be called), dev_data and the mtd->priv
\* of the entry are non-NULL.
C17_RegisteredEntryHasReferences ==
    \A d \in mtd_table : dev_data # NULL /\ mtd_priv[d] # NULL

\* C18: after any sequence of register and unregister calls, with
\* add_mtd_device and del_mtd_device succeeding or failing, the flag
\* mram_mtd_registered is set exactly when the registry holds an entry
\* installed by this driver.
C18_FlagMatchesRegistry ==
    mram_mtd_registered <=> (mtd_table # {})

\* C18 witness: a register call removed the entry registered before and then
\* failed to add the new one: the flag is clear and the registry is empty.
C18_Witness ==
    /\ lastLife.kind = "probe" /\ lastLife.del = "ok" /\ lastLife.add = "failed"
    /\ ~mram_mtd_registered /\ mtd_table = {}

\* C19: read leaves the chip contents unchanged: the only phase of a read
\* that starts a command carries the opcode 0x03 (never 0x06 or 0x02), no
\* phase after the address transmits anything, and the memory of the chip is
\* the same after the call as before it.
C19_ReadLeavesChipUnchanged ==
    [][ (nops' = nops + 1 /\ lastOp'.kind = "read") =>
            /\ \A i \in DOMAIN lastOp'.log :
                  /\ lastOp'.log[i].begin => lastOp'.log[i].tx = << CMD_READ >>
                  /\ lastOp'.log[i].tx \notin {<< CMD_WREN >>, << CMD_WRITE >>}
                  /\ (i > 2) => lastOp'.log[i].dir = "rx" /\ lastOp'.log[i].tx = << >>
            /\ chip'[lastOp'.dev].mem = chip[lastOp'.dev].mem
      ]_vars

====
